---- MODULE Spec2Model ----
(***************************************************************************)
(* Model of examples/data-processor/scripts/summarize_nyc_taxi_data.py:    *)
(* the __main__ block, main(args) statement by statement, and the Spark    *)
(* and boto3 operations it calls, as far as the script observes them.      *)
(*                                                                         *)
(* Money amounts are integers in hundredths (a fare of 250 is 2.50), so    *)
(* that round(x, 2) is a rounding to an integer.  Strings that the script  *)
(* splits or concatenates are sequences of one-character strings.          *)
(***************************************************************************)
EXTENDS Integers, Sequences, FiniteSets, Bags, TLC

VARIABLES
    pc,                         \* the statement the process is at
    argv,                       \* sys.argv
    stdout,                     \* what print() wrote
    exitStatus,                 \* the process's exit status, None while it runs
    spark,                      \* the SparkSession: "none", "active", "stopped"
    stops,                      \* number of spark.stop() calls
    input_object,               \* the object at s3://<input_bucket>/<input_file>
    reads,                      \* number of loads attempted on the input object
    output_object,              \* the object at <output_bucket>/<output_file>
    output0,                    \* the output object before the run
    puts,                       \* number of object.put() calls
    df, df_summary, top_10_expensive_trips,
    payment_type_distribution, total_trips, payment_type_percentage,
    result,                     \* locals of main
    body                        \* json.dumps(result), the argument of put

env    == <<argv, input_object, output0>>
locals == <<df, df_summary, top_10_expensive_trips, payment_type_distribution,
            total_trips, payment_type_percentage, result, body>>
world  == <<stdout, spark, stops, reads, output_object, puts>>
vars   == <<pc, exitStatus, env, locals, world>>

(***************************************************************************)
(* Bounds of the model.                                                    *)
(***************************************************************************)
MaxArgc  == 6       \* longest sys.argv tried
MaxSmall == 2       \* tables of up to MaxSmall rows are tried exhaustively
MaxRows  == 12      \* longest generated table
MaxSeed  == 2       \* generated tables are tried for the seeds 0..MaxSeed

(***************************************************************************)
(* Values.                                                                 *)
(***************************************************************************)
None  == -1        \* no exit status yet / no limit
Scale == 100        \* hundredths: the 2 of round(x, 2)
TopN  == 10         \* the limit of the most expensive trips

Range(s) == {s[i] : i \in DOMAIN s}
Last(s)  == s[Len(s)]
Min(a, b) == IF a <= b THEN a ELSE b

Unbound == [unbound |-> TRUE]           \* a local that is not assigned yet

(***************************************************************************)
(* Strings.                                                                *)
(***************************************************************************)
S3Scheme == <<"s", "3", ":", "/", "/">>
Slash    == <<"/">>

RECURSIVE Split(_, _)
\* str.split(sep) for a one-character separator
Split(s, sep) ==
    IF \A i \in DOMAIN s : s[i] # sep THEN <<s>>
    ELSE LET i == CHOOSE j \in DOMAIN s :
                      s[j] = sep /\ \A k \in 1..(j - 1) : s[k] # sep
         IN  <<SubSeq(s, 1, i - 1)>> \o Split(SubSeq(s, i + 1, Len(s)), sep)

LoadPath(bucket, key) == S3Scheme \o bucket \o Slash \o key

(***************************************************************************)
(* map_payment_type                                                        *)
(***************************************************************************)
payment_map == [c \in 1..6 |->
    CASE c = 1 -> "Credit card"
      [] c = 2 -> "Cash"
      [] c = 3 -> "No charge"
      [] c = 4 -> "Dispute"
      [] c = 5 -> "Unknown"
      [] c = 6 -> "Voided trip"]

map_payment_type_AllOther(payment_type) == "Other"

map_payment_type(payment_type) ==
    IF payment_type \in DOMAIN payment_map THEN payment_map[payment_type]
    ELSE "Other"

(***************************************************************************)
(* Arithmetic of the aggregates.                                           *)
(***************************************************************************)
Abs(n) == IF n < 0 THEN -n ELSE n

RECURSIVE GCD(_, _)
GCD(a, b) == IF b = 0 THEN a ELSE GCD(b, a % b)

\* the quotient num/den (den > 0) as a fraction in lowest terms
Ratio(num, den) ==
    LET g == GCD(Abs(num), den)
    IN  <<(IF num < 0 THEN -(Abs(num) \div g) ELSE num \div g), den \div g>>

\* round(num/den, 0) with ties away from zero, as Spark's round (HALF_UP)
RoundHalfUp(num, den) ==
    IF num >= 0 THEN (2 * num + den) \div (2 * den)
    ELSE -((2 * (-num) + den) \div (2 * den))

(***************************************************************************)
(* DataFrames.  A DataFrame is a query, evaluated when it is collected or  *)
(* counted: its rows so far, whether their order is the engine's choice    *)
(* (after a groupBy), the column it is ordered by (descending), and its    *)
(* limit.                                                                  *)
(***************************************************************************)
ParquetColumns == <<"VendorID", "fare_amount", "payment_type", "trip_distance">>

\* column names are resolved without regard to case (spark.sql.caseSensitive
\* is false unless configured otherwise)
Lower(name) ==
    CASE name = "Fare_amount" -> "fare_amount"
      [] name = "VendorID"    -> "vendorid"
      [] OTHER                -> name

Resolve(d, name) == CHOOSE c \in Range(d.columns) : Lower(c) = Lower(name)

\* spark.read.format("parquet").load(path), for a path that holds a table
Read(file) ==
    [columns |-> ParquetColumns, rows |-> file.rows,
     shuffled |-> FALSE, sortDesc |-> "", lim |-> None]

\* a row is a function from column names to values; a column that is null
\* in the row is missing from the function's domain
IsNull(r, c) == c \notin DOMAIN r

HasNull(r, columns) == \E c \in Range(columns) : IsNull(r, c)

\* DataFrame.dropna(): drops every row with a null in any column
DropNa(d) ==
    [d EXCEPT !.rows = SelectSeq(d.rows, LAMBDA r : ~HasNull(r, d.columns))]

RECURSIVE HashAggregate(_, _, _, _)
\* groupBy(key).agg(count("*"), sum(val)): one pass over the rows, one
\* accumulator per key, the keys in the order they are first seen
HashAggregate(rows, key, val, acc) ==
    IF rows = <<>> THEN acc
    ELSE LET r == Head(rows)
             k == r[key]
             next ==
                 IF k \in Range(acc.keys)
                 THEN [acc EXCEPT !.cnt[k] = @ + 1, !.sum[k] = @ + r[val]]
                 ELSE [keys |-> Append(acc.keys, k),
                       cnt  |-> [x \in DOMAIN acc.cnt \cup {k} |->
                                    IF x = k THEN 1 ELSE acc.cnt[x]],
                       sum  |-> [x \in DOMAIN acc.sum \cup {k} |->
                                    IF x = k THEN r[val] ELSE acc.sum[x]]]
         IN  HashAggregate(Tail(rows), key, val, next)

NoGroups == [keys |-> <<>>, cnt |-> <<>>, sum |-> <<>>]

GroupBy_DropsLast(d, key, val) ==
    HashAggregate(SubSeq(d.rows, 1, Len(d.rows) - 1), Resolve(d, key),
                  Resolve(d, val), NoGroups)

GroupBy(d, key, val) ==
    HashAggregate(d.rows, Resolve(d, key), Resolve(d, val), NoGroups)

\* df.groupBy("VendorID").agg(avg(..), count("*"), sum(..))
SummarizeByVendor(d) ==
    LET g == GroupBy(d, "VendorID", "Fare_amount")
    IN  [columns  |-> <<Resolve(d, "VendorID"), "avg_fare", "num_trips", "total_fare">>,
         rows     |-> [i \in 1..Len(g.keys) |->
                         LET k == g.keys[i]
                         IN  [VendorID   |-> k,
                              avg_fare   |-> Ratio(g.sum[k], g.cnt[k]),
                              num_trips  |-> g.cnt[k],
                              total_fare |-> g.sum[k]]],
         shuffled |-> TRUE, sortDesc |-> "", lim |-> None]

OrderByDesc_Unordered(d, col) == d

\* DataFrame.orderBy(col.desc())
OrderByDesc(d, col) == [d EXCEPT !.sortDesc = Resolve(d, col)]

Limit_All(d, n) == d

\* DataFrame.limit(n)
Limit(d, n) == [d EXCEPT !.lim = n]

\* DataFrame.withColumn(name, column): column[i] is the column's value in
\* row i, <<v>> for the value v and <<>> for null
WithColumn(d, name, column) ==
    [d EXCEPT !.columns = Append(d.columns, name),
              !.rows = [i \in DOMAIN d.rows |->
                          LET r == d.rows[i]
                              v == column[i]
                          IN  [c \in DOMAIN r \cup (IF v = <<>> THEN {} ELSE {name}) |->
                                  IF c = name THEN v[1] ELSE r[c]]]]

\* df.groupBy("payment_type").agg(count, round(avg, 2), round(sum, 2))
\*   .withColumn("payment_type_desc", udf).orderBy(trip_count desc)
SummarizePaymentTypes(d) ==
    LET g == GroupBy(d, "payment_type", "fare_amount")
        grouped ==
            [columns  |-> <<Resolve(d, "payment_type"), "trip_count", "avg_fare", "total_fare">>,
             rows     |-> [i \in 1..Len(g.keys) |->
                             LET k == g.keys[i]
                             IN  [payment_type |-> k,
                                  trip_count   |-> g.cnt[k],
                                  avg_fare     |-> RoundHalfUp(g.sum[k], g.cnt[k]),
                                  total_fare   |-> g.sum[k]]],
             shuffled |-> TRUE, sortDesc |-> "", lim |-> None]
        described == WithColumn(grouped, "payment_type_desc",
                                [i \in DOMAIN grouped.rows |->
                                    <<map_payment_type(grouped.rows[i].payment_type)>>])
    IN  OrderByDesc(described, "trip_count")

\* DataFrame.count()
Count(d) == IF d.lim = None THEN Len(d.rows) ELSE Min(d.lim, Len(d.rows))

Percentage_Truncated(trip_count, total) ==
    IF total = 0 THEN <<>> ELSE <<(trip_count * 100 * Scale) \div total>>

\* round((trip_count / total) * 100, 2), in hundredths of a percent; a
\* division by zero is null
Percentage(trip_count, total) ==
    IF total = 0 THEN <<>> ELSE <<RoundHalfUp(trip_count * 100 * Scale, total)>>

\* payment_type_distribution.withColumn("percentage", ...)
AddPercentage(d, total) ==
    WithColumn(d, "percentage",
               [i \in DOMAIN d.rows |-> Percentage(d.rows[i].trip_count, total)])

RECURSIVE Arrangements(_, _)
\* every order of the rows numbered idx
Arrangements(rows, idx) ==
    IF idx = {} THEN {<<>>}
    ELSE UNION {{<<rows[i]>> \o t : t \in Arrangements(rows, idx \ {i})} : i \in idx}

RECURSIVE SortedDesc(_, _, _)
\* every order of the rows numbered idx that descends by col: rows that
\* tie on col come in any order
SortedDesc(rows, idx, col) ==
    IF idx = {} THEN {<<>>}
    ELSE LET top == {i \in idx : \A j \in idx : rows[i][col] >= rows[j][col]}
         IN  UNION {{<<rows[i]>> \o t : t \in SortedDesc(rows, idx \ {i}, col)} : i \in top}

Take(s, n) == IF n = None THEN s ELSE SubSeq(s, 1, Min(n, Len(s)))

\* the row lists a collect() of d can return
Collect(d) ==
    LET ordered ==
            IF d.sortDesc # "" THEN SortedDesc(d.rows, DOMAIN d.rows, d.sortDesc)
            ELSE IF d.shuffled THEN Arrangements(d.rows, DOMAIN d.rows)
            ELSE {d.rows}
    IN  {Take(s, d.lim) : s \in ordered}

(***************************************************************************)
(* JSON.  A JSON object text is the sequence of its members <<name,        *)
(* value>> in the order they are written.                                  *)
(***************************************************************************)
RECURSIVE RowToJSON(_, _)
\* Row -> JSON text, as DataFrame.toJSON(): the columns in schema order, a
\* null field omitted
RowToJSON(r, columns) ==
    IF columns = <<>> THEN <<>>
    ELSE LET c == Head(columns)
         IN  (IF IsNull(r, c) THEN <<>> ELSE <<(<<c, r[c]>>)>>)
             \o RowToJSON(r, Tail(columns))

\* json.loads of an object text: a dict, a repeated name keeping its last value
json_loads(text) ==
    [k \in {text[i][1] : i \in DOMAIN text} |->
        text[CHOOSE i \in DOMAIN text :
                /\ text[i][1] = k
                /\ \A j \in DOMAIN text : text[j][1] = k => j <= i][2]]

\* the lists [json.loads(x) for x in d.toJSON().collect()] can be
CollectJSON(d) ==
    {[i \in DOMAIN s |-> json_loads(RowToJSON(s[i], d.columns))] : s \in Collect(d)}

\* json.dumps of a dict: an object text, here the set of its members
json_dumps(d) == {<<k, d[k]>> : k \in DOMAIN d}

TopLevelKeys(text) == {m[1] : m \in text}

BuildResult_NoSourceUrl(file_name, bucket_name, summary, top, payments) ==
    [data_file |-> Last(Split(file_name, "/")),
     data_summary |-> summary,
     top_10_most_expensive_trips |-> top,
     payment_types |-> payments]

\* the dict literal of main
BuildResult(file_name, bucket_name, summary, top, payments) ==
    [data_file |-> Last(Split(file_name, "/")),
     source_url |-> S3Scheme \o bucket_name \o file_name,
     data_summary |-> summary,
     top_10_most_expensive_trips |-> top,
     payment_types |-> payments]

(***************************************************************************)
(* The inputs of a run: sys.argv and the two objects in storage.           *)
(***************************************************************************)
Script    == <<"p">>
InBucket  == <<"i">>
OutBucket == <<"o">>
OutKey    == <<"r">>
Extra     == <<"x">>
InputKeys == {<<"t">>, <<"d", "/", "t">>}

FullArgv(key) ==
    <<Script, InBucket, key, OutBucket, OutKey>> \o [i \in 1..(MaxArgc - 5) |-> Extra]

Argvs == {SubSeq(FullArgv(key), 1, n) : n \in 1..MaxArgc, key \in InputKeys}

SmallRows ==
    [VendorID : {1, 2}, fare_amount : {250, 1001}, payment_type : {1, 7},
     trip_distance : {3}]
    \cup {[fare_amount |-> 250, payment_type |-> 1, trip_distance |-> 3],
          [VendorID |-> 1, fare_amount |-> 1001, payment_type |-> 2]}

RECURSIVE SeqsUpTo(_, _)
SeqsUpTo(S, n) ==
    IF n = 0 THEN {<<>>}
    ELSE LET shorter == SeqsUpTo(S, n - 1)
         IN  shorter \cup {Append(t, x) : t \in {u \in shorter : Len(u) = n - 1}, x \in S}

\* row i of the generated table of seed s: three vendors, fares that mostly
\* differ, payment codes inside and outside 1..6, a row with nulls for odd seeds
GeneratedRow(s, i) ==
    LET full == [VendorID      |-> 1 + ((i * (s + 1)) % 3),
                 fare_amount   |-> (((i * (1 + (s % 3)) + s) % 11) * 75) - 75,
                 payment_type  |-> ((i * i) % 5) + 2 * s,
                 trip_distance |-> i]
        nulls == (IF s % 2 = 1 /\ i % 12 = 3 THEN {"trip_distance"} ELSE {})
                 \cup (IF s % 4 = 3 /\ i % 12 = 3 THEN {"VendorID"} ELSE {})
    IN  [c \in DOMAIN full \ nulls |-> full[c]]

GeneratedTables == {[i \in 1..n |-> GeneratedRow(s, i)] : n \in 0..MaxRows, s \in 0..MaxSeed}

Tables == SeqsUpTo(SmallRows, MaxSmall) \cup GeneratedTables

NoSuchKey == [error |-> "NoSuchKey"]
ParquetFile(rows) == [rows |-> rows]
Exists(object) == "rows" \in DOMAIN object

Absent == {}
Stale  == {<<"data_file", <<"o", "l", "d">>>>}

\* the parameters of main, bound from args
input_bucket_name  == argv[2]
input_file_name    == argv[3]
output_bucket_name == argv[4]
output_file_name   == argv[5]

UsageMessage == "Usage: process_data input_bucket_name input_file_name output_bucket_name output_file_name"

Init ==
    /\ pc = "entry"
    /\ argv \in Argvs
    /\ stdout = <<>>
    /\ exitStatus = None
    /\ spark = "none"
    /\ stops = 0
    /\ input_object \in {NoSuchKey} \cup {ParquetFile(t) : t \in Tables}
    /\ reads = 0
    /\ output0 \in {Absent, Stale}
    /\ output_object = output0
    /\ puts = 0
    /\ df = Unbound
    /\ df_summary = Unbound
    /\ top_10_expensive_trips = Unbound
    /\ payment_type_distribution = Unbound
    /\ total_trips = Unbound
    /\ payment_type_percentage = Unbound
    /\ result = Unbound
    /\ body = Unbound

(***************************************************************************)
(* The statements.                                                         *)
(***************************************************************************)
DropFrame ==
    /\ df' = Unbound
    /\ df_summary' = Unbound
    /\ top_10_expensive_trips' = Unbound
    /\ payment_type_distribution' = Unbound
    /\ total_trips' = Unbound
    /\ payment_type_percentage' = Unbound
    /\ result' = Unbound
    /\ body' = Unbound

\* the statement at pc raises: nothing in the script catches it, the
\* exception leaves main and main's frame is dropped
Raise ==
    /\ pc' = "raise"
    /\ DropFrame
    /\ UNCHANGED <<exitStatus, env>>

\* __main__: print(len(sys.argv)); wrong count: usage and sys.exit(0)
UsageExit ==
    /\ pc = "entry"
    /\ Len(argv) # 5
    /\ stdout' = stdout \o <<Len(argv), UsageMessage>>
    /\ pc' = "exited"
    /\ exitStatus' = 0
    /\ UNCHANGED <<env, locals, spark, stops, reads, output_object, puts>>

CallMain_Unchecked ==
    /\ pc = "entry"
    /\ stdout' = Append(stdout, Len(argv))
    /\ pc' = "getOrCreate"
    /\ UNCHANGED <<exitStatus, env, locals, spark, stops, reads, output_object, puts>>

\* __main__: print(len(sys.argv)); main(sys.argv)
CallMain ==
    /\ pc = "entry"
    /\ Len(argv) = 5
    /\ stdout' = Append(stdout, Len(argv))
    /\ pc' = "getOrCreate"
    /\ UNCHANGED <<exitStatus, env, locals, spark, stops, reads, output_object, puts>>

\* result={}; SparkSession.builder.appName(appName).getOrCreate()
GetOrCreate ==
    /\ pc = "getOrCreate"
    /\ \/ /\ spark' = "active"
          /\ result' = <<>>
          /\ pc' = "load"
          /\ UNCHANGED <<exitStatus, env, df, df_summary, top_10_expensive_trips,
                         payment_type_distribution, total_trips,
                         payment_type_percentage, body>>
       \/ /\ Raise
          /\ UNCHANGED spark
    /\ UNCHANGED <<stdout, stops, reads, output_object, puts>>

\* df = spark.read.format("parquet")...load("s3://"+bucket+"/"+file).dropna()
Load ==
    /\ pc = "load"
    /\ reads' = reads + 1
    /\ \/ /\ Exists(input_object)
          /\ df' = DropNa(Read(input_object))
          /\ pc' = "df_summary"
          /\ UNCHANGED <<exitStatus, env, df_summary, top_10_expensive_trips,
                         payment_type_distribution, total_trips,
                         payment_type_percentage, result, body>>
       \/ Raise
    /\ UNCHANGED <<stdout, spark, stops, output_object, puts>>

\* df_summary = df.groupBy("VendorID").agg(...)
DfSummary ==
    /\ pc = "df_summary"
    /\ \/ /\ df_summary' = SummarizeByVendor(df)
          /\ pc' = "top_10"
          /\ UNCHANGED <<exitStatus, env, df, top_10_expensive_trips,
                         payment_type_distribution, total_trips,
                         payment_type_percentage, result, body>>
       \/ Raise
    /\ UNCHANGED world

\* top_10_expensive_trips = df.orderBy(f.col("fare_amount").desc()).limit(10)
Top10 ==
    /\ pc = "top_10"
    /\ \/ /\ top_10_expensive_trips' = Limit(OrderByDesc(df, "fare_amount"), TopN)
          /\ pc' = "payment_type_distribution"
          /\ UNCHANGED <<exitStatus, env, df, df_summary,
                         payment_type_distribution, total_trips,
                         payment_type_percentage, result, body>>
       \/ Raise
    /\ UNCHANGED world

\* payment_type_distribution = df.groupBy("payment_type")...orderBy(...)
PaymentTypeDistribution ==
    /\ pc = "payment_type_distribution"
    /\ \/ /\ payment_type_distribution' = SummarizePaymentTypes(df)
          /\ pc' = "total_trips"
          /\ UNCHANGED <<exitStatus, env, df, df_summary, top_10_expensive_trips,
                         total_trips, payment_type_percentage, result, body>>
       \/ Raise
    /\ UNCHANGED world

\* total_trips = df.count()
TotalTrips ==
    /\ pc = "total_trips"
    /\ \/ /\ total_trips' = Count(df)
          /\ pc' = "payment_type_percentage"
          /\ UNCHANGED <<exitStatus, env, df, df_summary, top_10_expensive_trips,
                         payment_type_distribution, payment_type_percentage,
                         result, body>>
       \/ Raise
    /\ UNCHANGED world

\* payment_type_percentage = payment_type_distribution.withColumn(...)
PaymentTypePercentage ==
    /\ pc = "payment_type_percentage"
    /\ \/ /\ payment_type_percentage' = AddPercentage(payment_type_distribution, total_trips)
          /\ pc' = "result"
          /\ UNCHANGED <<exitStatus, env, df, df_summary, top_10_expensive_trips,
                         payment_type_distribution, total_trips, result, body>>
       \/ Raise
    /\ UNCHANGED world

\* result = {...}: the three collects, in the order of the literal
Result ==
    /\ pc = "result"
    /\ \/ /\ \E summary \in CollectJSON(df_summary),
                top \in CollectJSON(top_10_expensive_trips),
                payments \in CollectJSON(payment_type_percentage) :
                result' = BuildResult(input_file_name, input_bucket_name,
                                      summary, top, payments)
          /\ pc' = "dumps"
          /\ UNCHANGED <<exitStatus, env, df, df_summary, top_10_expensive_trips,
                         payment_type_distribution, total_trips,
                         payment_type_percentage, body>>
       \/ Raise
    /\ UNCHANGED world

\* s3 = boto3.resource('s3'); object = s3.Object(...); json.dumps(result)
Dumps ==
    /\ pc = "dumps"
    /\ body' = json_dumps(result)
    /\ pc' = "put"
    /\ UNCHANGED <<exitStatus, env, df, df_summary, top_10_expensive_trips,
                   payment_type_distribution, total_trips,
                   payment_type_percentage, result, world>>

Put_Truncating ==
    /\ pc = "put"
    /\ puts' = puts + 1
    /\ \/ /\ output_object' = body
          /\ pc' = "stop"
          /\ UNCHANGED <<exitStatus, env, locals>>
       \/ /\ Raise
          /\ output_object' = {}
    /\ UNCHANGED <<stdout, spark, stops, reads>>

\* object.put(Body=...): the object is replaced whole, or the call raises
\* and the object is as it was
Put ==
    /\ pc = "put"
    /\ puts' = puts + 1
    /\ \/ /\ output_object' = body
          /\ pc' = "stop"
          /\ UNCHANGED <<exitStatus, env, locals>>
       \/ /\ Raise
          /\ UNCHANGED output_object
    /\ UNCHANGED <<stdout, spark, stops, reads>>

\* spark.stop()
Stop ==
    /\ pc = "stop"
    /\ spark' = "stopped"
    /\ stops' = stops + 1
    /\ pc' = "return"
    /\ UNCHANGED <<exitStatus, env, locals, stdout, reads, output_object, puts>>

\* return None; the end of the script: exit status 0
Return ==
    /\ pc = "return"
    /\ DropFrame
    /\ pc' = "exited"
    /\ exitStatus' = 0
    /\ UNCHANGED <<env, world>>

UncaughtException_Swallowed ==
    /\ pc = "raise"
    /\ pc' = "exited"
    /\ exitStatus' = 0
    /\ UNCHANGED <<env, locals, world>>

\* an exception nobody caught ends the interpreter with status 1; the
\* script registers nothing that would stop the session on the way out
UncaughtException ==
    /\ pc = "raise"
    /\ pc' = "exited"
    /\ exitStatus' = 1
    /\ UNCHANGED <<env, locals, world>>

Next ==
    \/ UsageExit
    \/ CallMain
    \/ GetOrCreate
    \/ Load
    \/ DfSummary
    \/ Top10
    \/ PaymentTypeDistribution
    \/ TotalTrips
    \/ PaymentTypePercentage
    \/ Result
    \/ Dumps
    \/ Put
    \/ Stop
    \/ Return
    \/ UncaughtException

Spec == Init /\ [][Next]_vars

(***************************************************************************)
(* What the properties speak about.                                        *)
(***************************************************************************)
ResultKeys == {"data_file", "source_url", "data_summary",
               "top_10_most_expensive_trips", "payment_types"}

\* the put succeeded: the output object is this run's document
Uploaded ==
    \/ pc \in {"stop", "return"}
    \/ pc = "exited" /\ exitStatus = 0 /\ spark = "stopped"

\* the value of a top-level key of the uploaded document
Doc(key) == (CHOOSE m \in output_object : m[1] = key)[2]

\* the rows of the input table that have no null field, in file order
NullDropped ==
    SelectSeq(input_object.rows, LAMBDA r : DOMAIN r = Range(ParquetColumns))

RECURSIVE Total(_, _)
\* the sum of f[i] over the indices i in S
Total(f, S) ==
    IF S = {} THEN 0
    ELSE LET i == CHOOSE j \in S : TRUE IN f[i] + Total(f, S \ {i})

BagOf(s) == [x \in Range(s) |-> Cardinality({i \in DOMAIN s : s[i] = x})]

Stage ==
    CASE pc = "entry"                          -> "Invocation"
      [] pc \in {"getOrCreate", "load"}        -> "Start"
      [] pc \in {"df_summary", "top_10", "payment_type_distribution",
                 "total_trips", "payment_type_percentage", "result"} -> "Loaded"
      [] pc = "dumps"                          -> "Aggregated"
      [] pc = "put"                            -> "Serialized"
      [] pc = "stop"                           -> "Uploaded"
      [] pc = "return"                         -> "Done"
      [] pc = "raise"                          -> "Failed"
      [] pc = "exited" /\ spark = "stopped"    -> "Done"
      [] pc = "exited" /\ spark = "none" /\ reads = 0 /\ exitStatus = 0 -> "Invocation"
      [] OTHER                                 -> "Failed"

StageRank(st) ==
    CASE st = "Invocation" -> 0
      [] st = "Start"      -> 1
      [] st = "Loaded"     -> 2
      [] st = "Aggregated" -> 3
      [] st = "Serialized" -> 4
      [] st = "Uploaded"   -> 5
      [] st = "Done"       -> 6
      [] st = "Failed"     -> 7

(***************************************************************************)
(* C1. Every run that acquired the session has stopped it exactly once     *)
(* when the process has exited, whether it succeeded or failed.            *)
(***************************************************************************)
C1_ReleasedExactlyOnce ==
    (pc = "exited" /\ spark # "none") => stops = 1

(***************************************************************************)
(* C2. No partial output: at most one put, made from the statement after   *)
(* the load, the aggregations and the assembly of the whole document;      *)
(* the output object only ever changes to that whole document; a run       *)
(* without a put leaves the output object as it was.                       *)
(***************************************************************************)
C2_State ==
    /\ puts <= 1
    /\ puts = 0 => output_object = output0
    /\ output_object # output0 => Uploaded /\ TopLevelKeys(output_object) = ResultKeys

C2_Step ==
    /\ puts' # puts =>
          /\ pc = "put" /\ puts = 0 /\ reads = 1
          /\ DOMAIN result = ResultKeys
          /\ body = json_dumps(result)
    /\ output_object' # output_object => puts' # puts /\ output_object' = body

C2_NoPartialOutput == [](C2_State) /\ [][C2_Step]_vars

C2_Witness == pc = "exited" /\ exitStatus = 1 /\ reads = 1 /\ puts = 0 /\ output0 = Stale

(***************************************************************************)
(* C3. An invocation with an argument count other than four prints the     *)
(* usage message and exits with status 0; no session, no read, no write.   *)
(***************************************************************************)
C3_MalformedInvocation ==
    Len(argv) # 5 =>
        /\ pc \in {"entry", "exited"}
        /\ spark = "none" /\ stops = 0 /\ reads = 0 /\ puts = 0
        /\ output_object = output0
        /\ pc = "exited" => exitStatus = 0 /\ stdout = <<Len(argv), UsageMessage>>

C3_Witness == pc = "exited" /\ Len(argv) = 2 /\ exitStatus = 0

(***************************************************************************)
(* C4. As claimed: the uploaded document has exactly four top-level keys.  *)
(***************************************************************************)
C4_FourKeys == Uploaded => Cardinality(TopLevelKeys(output_object)) = 4

\* C4, amended: the uploaded document has exactly the five top-level keys
\* data_file, source_url, data_summary, top_10_most_expensive_trips and
\* payment_types.
C4_FiveKeys ==
    Uploaded => /\ TopLevelKeys(output_object) = ResultKeys
                /\ Cardinality(output_object) = 5

C4_Witness == Uploaded /\ pc = "exited" /\ Len(NullDropped) > 0

(***************************************************************************)
(* C5. data_summary has exactly one row per distinct VendorID of the       *)
(* null-dropped input; the row's num_trips is the number of null-dropped   *)
(* rows of that vendor, its total_fare the sum of their fares, and its     *)
(* avg_fare is total_fare / num_trips.                                     *)
(***************************************************************************)
C5_DataSummary ==
    Uploaded =>
        LET T == NullDropped
            S == Doc("data_summary")
            vendors == {T[i].VendorID : i \in DOMAIN T}
            fares == [i \in DOMAIN T |-> T[i].fare_amount]
        IN  /\ Len(S) = Cardinality(vendors)
            /\ \A v \in vendors :
                  LET of_v == {i \in DOMAIN T : T[i].VendorID = v}
                      at == {k \in DOMAIN S : S[k].VendorID = v}
                  IN  /\ Cardinality(at) = 1
                      /\ \A k \in at :
                            /\ S[k].num_trips = Cardinality(of_v)
                            /\ S[k].total_fare = Total(fares, of_v)
                            /\ S[k].avg_fare[1] * S[k].num_trips
                                 = S[k].total_fare * S[k].avg_fare[2]
                            /\ S[k].avg_fare[2] > 0

C5_Witness ==
    /\ Uploaded
    /\ Len(NullDropped) < Len(input_object.rows)
    /\ Len(Doc("data_summary")) >= 2
    /\ \E k \in DOMAIN Doc("data_summary") :
          Doc("data_summary")[k].num_trips >= 2 /\ Doc("data_summary")[k].avg_fare[2] > 1

(***************************************************************************)
(* C6. top_10_most_expensive_trips has min(10, row count) rows, all of     *)
(* them rows of the null-dropped input (each used no more often than it    *)
(* occurs there), in descending order of fare, and no row left out has a   *)
(* higher fare than a row in it.                                           *)
(***************************************************************************)
C6_TopTrips ==
    Uploaded =>
        LET T == NullDropped
            top == Doc("top_10_most_expensive_trips")
            rest == BagOf(T) (-) BagOf(top)
        IN  /\ Len(top) = Min(10, Len(T))
            /\ BagOf(top) \sqsubseteq BagOf(T)
            /\ \A i, j \in DOMAIN top : i < j => top[i].fare_amount >= top[j].fare_amount
            /\ \A x \in BagToSet(rest) : \A i \in DOMAIN top :
                  top[i].fare_amount >= x.fare_amount

\* more than ten rows survive the null drop, and a row left out ties on
\* fare with the last row taken
C6_Witness ==
    /\ Uploaded
    /\ Len(NullDropped) > 10
    /\ LET top == Doc("top_10_most_expensive_trips")
       IN  \E i \in DOMAIN NullDropped :
              /\ NullDropped[i] \notin Range(top)
              /\ NullDropped[i].fare_amount = top[Len(top)].fare_amount

(***************************************************************************)
(* C7. As claimed: each percentage is trip_count / total * 100 rounded to  *)
(* two decimals, total being the row count of the null-dropped table; the  *)
(* trip_counts sum to total and the percentages sum to 100 within 0.005    *)
(* per row.  (Percentages are in hundredths of a percent.)                 *)
(***************************************************************************)
C7_RowPercentages ==
    LET P == Doc("payment_types")
        n == Len(NullDropped)
    IN  /\ \A k \in DOMAIN P :
              \* the nearest hundredth to trip_count * 100 / n, a tie going up
              /\ 2 * (P[k].percentage * n - P[k].trip_count * 100 * 100) <= n
              /\ 2 * (P[k].trip_count * 100 * 100 - P[k].percentage * n) < n
        /\ Total([k \in DOMAIN P |-> P[k].trip_count], DOMAIN P) = n

C7_SumError ==
    LET P == Doc("payment_types")
    IN  2 * Abs(Total([k \in DOMAIN P |-> P[k].percentage], DOMAIN P) - 100 * 100) <= Len(P)

C7_Percentages == Uploaded => C7_RowPercentages /\ C7_SumError

\* C7, amended: the same, the sum of the percentages being claimed only
\* when the null-dropped table has a row (without one, payment_types is
\* empty and the percentages sum to 0).
C7_PercentagesNonEmpty ==
    Uploaded => /\ C7_RowPercentages
                /\ Len(NullDropped) > 0 => C7_SumError
                /\ Len(NullDropped) = 0 => Doc("payment_types") = <<>>

\* three payment types among seven or more rows: percentages that round
C7_Witness ==
    /\ Uploaded
    /\ Len(Doc("payment_types")) >= 3
    /\ Len(NullDropped) < Len(input_object.rows)
    /\ \E k \in DOMAIN Doc("payment_types") :
          (Doc("payment_types")[k].trip_count * 100 * 100) % Len(NullDropped) # 0

(***************************************************************************)
(* C8. Each payment_types row's payment_type_desc is the description of    *)
(* its code: 1 Credit card, 2 Cash, 3 No charge, 4 Dispute, 5 Unknown,     *)
(* 6 Voided trip, any other code "Other".                                  *)
(***************************************************************************)
C8_Descriptions ==
    Uploaded =>
        \A k \in DOMAIN Doc("payment_types") :
            LET r == Doc("payment_types")[k]
            IN  /\ r.payment_type = 1 => r.payment_type_desc = "Credit card"
                /\ r.payment_type = 2 => r.payment_type_desc = "Cash"
                /\ r.payment_type = 3 => r.payment_type_desc = "No charge"
                /\ r.payment_type = 4 => r.payment_type_desc = "Dispute"
                /\ r.payment_type = 5 => r.payment_type_desc = "Unknown"
                /\ r.payment_type = 6 => r.payment_type_desc = "Voided trip"
                /\ r.payment_type \notin 1..6 => r.payment_type_desc = "Other"

C8_Witness ==
    /\ Uploaded
    /\ \E k \in DOMAIN Doc("payment_types") : Doc("payment_types")[k].payment_type \in 1..6
    /\ \E k \in DOMAIN Doc("payment_types") : Doc("payment_types")[k].payment_type \notin 1..6

(***************************************************************************)
(* C9. payment_types has one row per distinct payment_type of the          *)
(* null-dropped input, and each row's trip_count is at least the next      *)
(* row's.                                                                  *)
(***************************************************************************)
C9_PaymentOrder ==
    Uploaded =>
        LET T == NullDropped
            P == Doc("payment_types")
        IN  /\ Len(P) = Cardinality({T[i].payment_type : i \in DOMAIN T})
            /\ {P[k].payment_type : k \in DOMAIN P} = {T[i].payment_type : i \in DOMAIN T}
            /\ \A k \in 1..(Len(P) - 1) : P[k].trip_count >= P[k + 1].trip_count
            /\ \A k \in DOMAIN P : "percentage" \in DOMAIN P[k]

\* the largest group is not the first one met in the file
C9_Witness ==
    /\ Uploaded
    /\ Len(Doc("payment_types")) >= 2
    /\ Doc("payment_types")[1].trip_count > Doc("payment_types")[2].trip_count
    /\ Doc("payment_types")[1].payment_type # NullDropped[1].payment_type

(***************************************************************************)
(* C10. A run moves through Start, Loaded, Aggregated, Serialized,         *)
(* Uploaded, Done one stage at a time and never back; a failure moves it   *)
(* to Failed, where it stays: no read, no put and no stop follows, and     *)
(* the process exits with a status other than 0.                           *)
(***************************************************************************)
C10_Step ==
    /\ Stage' # Stage =>
          \/ StageRank(Stage') = StageRank(Stage) + 1 /\ Stage' # "Failed"
          \/ Stage' = "Failed" /\ Stage \notin {"Invocation", "Done"}
    /\ Stage = "Failed" =>
          /\ Stage' = "Failed"
          /\ UNCHANGED <<spark, stops, reads, puts, output_object>>
    /\ (Stage' = "Failed" /\ pc' = "exited") => exitStatus' \notin {0, None}
    /\ reads' <= 1 /\ puts' <= 1 /\ stops' <= 1

C10_LinearPipeline == [][C10_Step]_vars

C10_Witness == pc = "exited" /\ exitStatus = 1 /\ reads = 1 /\ puts = 1 /\ stops = 0

====
